---- MODULE Spec2Model ----
(***************************************************************************)
(* Session lifecycle and terminal bridge of terminal-on-web.               *)
(*                                                                         *)
(* The repository holds successive variants of one server.  The model is   *)
(* parameterised by the variant that runs: "server" is backend/server.js,  *)
(* "server3" is backend/server3.js.  Every await of a handler is a point   *)
(* where the handler is suspended and other handlers run; the code of a    *)
(* handler between two awaits is one atomic step (one Node.js event-loop   *)
(* turn together with the promise continuations it resolves).              *)
(***************************************************************************)
EXTENDS Integers, Sequences, FiniteSets, TLC

\* ------------------------------------------------------------------ bounds
MaxSessions == 2      \* create-session requests issued
MaxReqs == 2          \* termination calls started by requests, sweeps, timers
MaxTicks == 1         \* clock advances
MaxConns == 2         \* WebSocket connections opened
MaxResizes == 2       \* resize requests issued
MaxLineLen == 4       \* characters of a line given to isCommandBlocked
MaxFrames == 4        \* WebSocket frames received on a connection
MaxChunks == 2        \* chunks a stream 'data' handler receives

\* --------------------------------------------------------------- constants
Variants == {"server", "server3"}
IdleThreshold == 30 * 60 * 1000      \* ms
TickStep == 31 * 60 * 1000           \* ms the model's clock advances by
DefaultDims == [cols |-> 80, rows |-> 24]
DimChoices == {DefaultDims, [cols |-> 120, rows |-> 40]}
Ids == 1..MaxSessions
NoExec == <<"none", 0>>

VARIABLES
    variant,         \* which server file is running
    now,             \* Date.now()
    exited,          \* process.exit() was called
    activeSessions,  \* keys of the activeSessions Map, in insertion order
    session,         \* the session object stored under each id
    container,       \* runtime side: state of each container, calls received
    createReq,       \* POST /api/sessions handlers, one per generated id
    timerAt,         \* server.js: time the creation setTimeout is due, -1 if none
    reqs,            \* cleanupSession calls and DELETE requests, in start order
    sig,             \* SIGTERM/SIGINT handler
    conn,            \* WebSocket connection handlers, in connection order
    rz,              \* resize requests, in arrival order
    resizeLog,       \* runtime side: the exec.resize calls received, in order
    wsIn,            \* per connection: the frames received from the client
    commandBuffer,   \* per connection: the message handler's commandBuffer
    lastCommand,     \* per session: session.lastCommand (<<>> while unset)
    streamIn,        \* per connection: the writes made to its exec stream
    wsOut,           \* per connection: the frames sent to the client
    streamOut,       \* per connection: the chunks its stream 'data' handler got
    ended,           \* the exec handles whose stream.end() was called
    reported,        \* the <<exec, event>> pairs the exec streams have emitted
    line,            \* a line handed to isCommandBlocked
    verdict          \* what isCommandBlocked answered for it

lifeVars == <<variant, now, exited, activeSessions, session, container,
              createReq, timerAt, reqs, sig>>
bridgeVars == <<conn, rz, resizeLog>>
relayVars == <<wsOut, streamOut, ended, reported>>
guardVars == <<wsIn, commandBuffer, lastCommand, streamIn, relayVars>>
filterVars == <<line, verdict>>
vars == <<lifeVars, bridgeVars, guardVars, filterVars>>

\* ----------------------------------------------------------------- helpers
Registered(id) == \E i \in 1..Len(activeSessions) : activeSessions[i] = id

MapSet(m, id) == IF \E i \in 1..Len(m) : m[i] = id THEN m ELSE Append(m, id)

MapDelete(m, id) == SelectSeq(m, LAMBDA x : x # id)

NoSession == [container |-> 0, dimensions |-> DefaultDims, lastActivity |-> 0,
              exec |-> NoExec]

NoContainer == [state |-> "none", stops |-> 0, removes |-> 0]

NoCreate == [pc |-> "idle", dims |-> DefaultDims, status |-> 0, container |-> 0]

NoSig == [pc |-> "none", wait |-> {}]

\* An id no create request ever generates (a request naming an unknown session).
UnknownId == 0

\* The HTTP/WebSocket server takes new requests: the process runs and
\* server.close() (server.js SIGTERM) was not called.
Accepting == ~exited /\ sig.pc # "closing"

Init ==
    /\ variant \in Variants
    /\ now = 0
    /\ exited = FALSE
    /\ activeSessions = <<>>
    /\ session = [i \in Ids |-> NoSession]
    /\ container = [i \in Ids |-> NoContainer]
    /\ createReq = [i \in Ids |-> NoCreate]
    /\ timerAt = [i \in Ids |-> -1]
    /\ reqs = <<>>
    /\ sig = NoSig
    /\ conn = <<>>
    /\ rz = <<>>
    /\ resizeLog = <<>>
    /\ wsIn = [c \in 1..MaxConns |-> <<>>]
    /\ commandBuffer = [c \in 1..MaxConns |-> <<>>]
    /\ lastCommand = [i \in Ids |-> <<>>]
    /\ streamIn = [c \in 1..MaxConns |-> <<>>]
    /\ wsOut = [c \in 1..MaxConns |-> <<>>]
    /\ streamOut = [c \in 1..MaxConns |-> <<>>]
    /\ ended = {}
    /\ reported = {}
    /\ line = <<>>
    /\ verdict = "unchecked"

\* ------------------------------------------------------------ create session
\* uuidv4() yields an id no earlier request holds; ids are handed out in order.
NextId == CHOOSE i \in Ids : createReq[i].pc = "idle" /\
                             \A j \in Ids : j < i => createReq[j].pc # "idle"

CreateFail(id) ==
    createReq' = [createReq EXCEPT ![id].pc = "failed", ![id].status = 500]

\* POST /api/sessions up to `await docker.createContainer(...)`.
CreateRequest(dims) ==
    /\ Accepting
    /\ \E i \in Ids : createReq[i].pc = "idle"
    /\ createReq' = [createReq EXCEPT ![NextId] =
                        [pc |-> "createContainer", status |-> 0, container |-> 0,
                         dims |-> IF variant = "server" THEN DefaultDims ELSE dims]]
    /\ UNCHANGED <<bridgeVars, guardVars, filterVars, variant, now, exited, activeSessions, session, container,
                   timerAt, reqs, sig>>

\* The handle docker.createContainer resolves with for request id: a new
\* container object, the one whose state the model keeps as container[id].
NewHandle(id) == id

\* createContainer settles; on success the handler keeps the handle in its
\* local `container` and calls container.start().
CreateContainerReturn(id, ok) ==
    /\ ~exited
    /\ createReq[id].pc = "createContainer"
    /\ IF ok
       THEN /\ container' = [container EXCEPT ![id].state = "created"]
            /\ createReq' = [createReq EXCEPT ![id].pc = "start",
                                              ![id].container = NewHandle(id)]
       ELSE /\ CreateFail(id)
            /\ UNCHANGED container
    /\ UNCHANGED <<bridgeVars, guardVars, filterVars, variant, now, exited, activeSessions, session, timerAt, reqs, sig>>

\* container.start() settles; on success the handler calls container.exec().
StartReturn(id, ok) ==
    /\ ~exited
    /\ createReq[id].pc = "start"
    /\ IF ok
       THEN /\ container' = [container EXCEPT ![id].state = "running"]
            /\ createReq' = [createReq EXCEPT ![id].pc = "exec"]
       ELSE /\ CreateFail(id)
            /\ UNCHANGED container
    /\ UNCHANGED <<bridgeVars, guardVars, filterVars, variant, now, exited, activeSessions, session, timerAt, reqs, sig>>

\* ExecReturn as it would be with the session stored before `await exec.start()`.
ExecReturnRegistersEarly(id, ok) ==
    /\ ~exited
    /\ createReq[id].pc = "exec"
    /\ IF ok
       THEN /\ createReq' = [createReq EXCEPT ![id].pc = "execStart"]
            /\ activeSessions' = MapSet(activeSessions, id)
       ELSE /\ CreateFail(id)
            /\ UNCHANGED activeSessions
    /\ UNCHANGED <<bridgeVars, guardVars, filterVars, variant, now, exited, session, container,
                   timerAt, reqs, sig>>

\* container.exec() settles; on success the handler calls exec.start().
ExecReturn(id, ok) ==
    /\ ~exited
    /\ createReq[id].pc = "exec"
    /\ IF ok
       THEN createReq' = [createReq EXCEPT ![id].pc = "execStart"]
       ELSE CreateFail(id)
    /\ UNCHANGED <<bridgeVars, guardVars, filterVars, variant, now, exited, activeSessions, session, container,
                   timerAt, reqs, sig>>

\* NewSession as it would be with the container handle kept in a variable the
\* handlers share: the session gets the container created last.
NewSessionSharedHandle(id) ==
    LET made == {createReq[i].container : i \in Ids}
        last == CHOOSE h \in made : \A g \in made : g <= h
    IN  IF variant = "server"
        THEN [container |-> last, dimensions |-> DefaultDims,
              lastActivity |-> now, exec |-> <<"create", id>>]
        ELSE [container |-> last, dimensions |-> createReq[id].dims,
              lastActivity |-> now, exec |-> NoExec]

\* The session object activeSessions.set stores.  server.js keeps the exec and
\* stream opened at creation; server3.js keeps the dimensions and no exec.
NewSession(id) ==
    IF variant = "server"
    THEN [container |-> createReq[id].container, dimensions |-> DefaultDims,
          lastActivity |-> now, exec |-> <<"create", id>>]
    ELSE [container |-> createReq[id].container, dimensions |-> createReq[id].dims,
          lastActivity |-> now, exec |-> NoExec]

\* exec.start() settles; on success the session is registered and 200 returned.
ExecStartReturn(id, ok) ==
    /\ ~exited
    /\ createReq[id].pc = "execStart"
    /\ IF ok
       THEN /\ activeSessions' = MapSet(activeSessions, id)
            /\ session' = [session EXCEPT ![id] = NewSession(id)]
            /\ timerAt' = IF variant = "server"
                          THEN [timerAt EXCEPT ![id] = now + IdleThreshold]
                          ELSE timerAt
            /\ createReq' = [createReq EXCEPT ![id].pc = "done", ![id].status = 200]
       ELSE /\ CreateFail(id)
            /\ UNCHANGED <<activeSessions, session, timerAt>>
    /\ UNCHANGED <<bridgeVars, guardVars, filterVars, variant, now, exited, container, reqs, sig>>

\* ------------------------------------------------------------ cleanupSession
\* cleanupSession(id) up to its first await, against registry m: an unknown id
\* returns at once; a known one has issued container.stop().
CleanupCall(m, id, origin) ==
    [id |-> id, origin |-> origin, failed |-> FALSE, threw |-> FALSE,
     pc |-> IF \E i \in 1..Len(m) : m[i] = id THEN "stop" ELSE "done",
     status |-> IF origin = "delete" /\ ~(\E i \in 1..Len(m) : m[i] = id)
                THEN 200 ELSE 0]

\* The runtime's record of the container.stop() calls issued for the ids of seq s.
StopIssued(cont, s) ==
    [i \in Ids |-> IF \E j \in 1..Len(s) : s[j] = i
                   THEN [cont[i] EXCEPT !.stops = @ + 1] ELSE cont[i]]

\* cleanupSession call k settles (its finally block ran): the entry is deleted,
\* the promise resolves, and the caller awaiting it continues in the same turn:
\* the DELETE handler answers 200, the SIGTERM/SIGINT handler goes on.
Settle(k, failed, cont) ==
    LET id == reqs[k].id
        reg == MapDelete(activeSessions, id)
        done == [reqs EXCEPT ![k].pc = "done", ![k].failed = failed,
                             ![k].status = IF reqs[k].origin = "delete" THEN 200 ELSE 0]
        waiting == sig.pc = "cleaning" /\ k \in sig.wait
        rest == {j \in sig.wait : done[j].pc # "done"}
        \* server.js: the for-await loop over the Map takes its next entry
        more == waiting /\ variant = "server" /\ Len(reg) > 0
        finished == waiting /\ rest = {} /\ ~more
    IN  /\ activeSessions' = reg
        /\ reqs' = IF more THEN Append(done, CleanupCall(reg, Head(reg), "shutdown"))
                           ELSE done
        /\ container' = IF more THEN StopIssued(cont, <<Head(reg)>>) ELSE cont
        /\ sig' = IF more THEN [pc |-> "cleaning", wait |-> {Len(done) + 1}]
                  ELSE IF finished
                       THEN [pc |-> IF variant = "server" THEN "closing" ELSE "exited",
                             wait |-> {}]
                       ELSE sig
        /\ exited' = (finished /\ variant = "server3")

\* StopReturn as it would be without the try/catch/finally around the teardown:
\* a failed stop rejects cleanupSession, the entry stays, DELETE answers 500.
StopReturnNoFinally(k, ok) ==
    /\ ~exited
    /\ k \in 1..Len(reqs)
    /\ reqs[k].pc = "stop"
    /\ IF ok
       THEN /\ container' = [container EXCEPT ![reqs[k].id].state = "stopped",
                                              ![reqs[k].id].removes = @ + 1]
            /\ reqs' = [reqs EXCEPT ![k].pc = "remove"]
       ELSE /\ reqs' = [reqs EXCEPT ![k].pc = "done", ![k].failed = TRUE,
                                    ![k].threw = TRUE,
                                    ![k].status = IF reqs[k].origin = "delete"
                                                  THEN 500 ELSE 0]
            /\ UNCHANGED container
    /\ UNCHANGED <<bridgeVars, guardVars, filterVars, variant, now, session, createReq, timerAt,
                   activeSessions, sig, exited>>

\* container.stop() of call k settles.  Success: container.remove() is issued.
\* Failure: catch logs, finally deletes the entry.
StopReturn(k, ok) ==
    /\ ~exited
    /\ k \in 1..Len(reqs)
    /\ reqs[k].pc = "stop"
    /\ IF ok
       THEN /\ container' = [container EXCEPT ![reqs[k].id].state = "stopped",
                                              ![reqs[k].id].removes = @ + 1]
            /\ reqs' = [reqs EXCEPT ![k].pc = "remove"]
            /\ UNCHANGED <<activeSessions, sig, exited>>
       ELSE Settle(k, TRUE, container)
    /\ UNCHANGED <<bridgeVars, guardVars, filterVars, variant, now, session, createReq, timerAt>>

\* RemoveReturn as it would be without the finally block: a failed remove
\* leaves the entry in the registry.
RemoveReturnNoFinally(k, ok) ==
    /\ ~exited
    /\ k \in 1..Len(reqs)
    /\ reqs[k].pc = "remove"
    /\ IF ok
       THEN Settle(k, FALSE, [container EXCEPT ![reqs[k].id].state = "removed"])
       ELSE /\ reqs' = [reqs EXCEPT ![k].pc = "done", ![k].failed = TRUE]
            /\ UNCHANGED <<activeSessions, container, sig, exited>>
    /\ UNCHANGED <<bridgeVars, guardVars, filterVars, variant, now, session, createReq, timerAt>>

\* container.remove() of call k settles; either way finally deletes the entry.
RemoveReturn(k, ok) ==
    /\ ~exited
    /\ k \in 1..Len(reqs)
    /\ reqs[k].pc = "remove"
    /\ IF ok
       THEN Settle(k, FALSE, [container EXCEPT ![reqs[k].id].state = "removed"])
       ELSE Settle(k, TRUE, container)
    /\ UNCHANGED <<bridgeVars, guardVars, filterVars, variant, now, session, createReq, timerAt>>

\* ids a client can name: those a create call returned, or an unknown one
Nameable == {UnknownId} \cup {i \in Ids : createReq[i].pc = "done"}

\* server.js answers 404 for an id the Map does not hold, before any cleanup.
DeleteNotFound(id) ==
    [id |-> id, origin |-> "delete", failed |-> FALSE, threw |-> FALSE,
     pc |-> "done", status |-> 404]

\* DELETE /api/sessions/:sessionId up to `await cleanupSession(sessionId)`.
DeleteRequest(id) ==
    /\ Accepting
    /\ Len(reqs) < MaxReqs
    /\ id \in Nameable
    /\ reqs' = Append(reqs, IF variant = "server" /\ ~Registered(id)
                            THEN DeleteNotFound(id)
                            ELSE CleanupCall(activeSessions, id, "delete"))
    /\ container' = IF Registered(id) THEN StopIssued(container, <<id>>) ELSE container
    /\ UNCHANGED <<bridgeVars, guardVars, filterVars, variant, now, exited, activeSessions, session, createReq,
                   timerAt, sig>>

\* -------------------------------------------------------------- background
\* Stale as it would be without the test of lastActivity: every session.
StaleWhateverActivity == activeSessions

\* The sessions one reaper sweep finds idle beyond the threshold, in Map order.
Stale == SelectSeq(activeSessions,
                   LAMBDA id : now - session[id].lastActivity > IdleThreshold)

\* One setInterval sweep: cleanupSession is called, not awaited, for every stale
\* session, so every container.stop() is issued within the sweep.  (A sweep that
\* finds no stale session changes nothing.)
ReaperSweep ==
    /\ ~exited
    /\ Len(Stale) > 0
    /\ Len(reqs) + Len(Stale) <= MaxReqs
    /\ reqs' = reqs \o [i \in 1..Len(Stale) |->
                           CleanupCall(activeSessions, Stale[i], "reaper")]
    /\ container' = StopIssued(container, Stale)
    /\ UNCHANGED <<bridgeVars, guardVars, filterVars, variant, now, exited, activeSessions, session, createReq,
                   timerAt, sig>>

\* server.js: the setTimeout armed at creation fires 30 minutes later and
\* cleans the session up if the Map still holds it.
TimerFire(id) ==
    /\ ~exited
    /\ variant = "server"
    /\ timerAt[id] >= 0
    /\ now >= timerAt[id]
    /\ Len(reqs) < MaxReqs
    /\ timerAt' = [timerAt EXCEPT ![id] = -1]
    /\ IF Registered(id)
       THEN /\ reqs' = Append(reqs, CleanupCall(activeSessions, id, "timeout"))
            /\ container' = StopIssued(container, <<id>>)
       ELSE UNCHANGED <<reqs, container>>
    /\ UNCHANGED <<bridgeVars, guardVars, filterVars, variant, now, exited, activeSessions, session, createReq, sig>>

\* Time passes.
Tick ==
    /\ ~exited
    /\ now < MaxTicks * TickStep
    /\ now' = now + TickStep
    /\ UNCHANGED <<bridgeVars, guardVars, filterVars, variant, exited, activeSessions, session, container,
                   createReq, timerAt, reqs, sig>>

\* SIGTERM/SIGINT (handled once).  server3.js: cleanupAllSessions calls
\* cleanupSession for every key at once and exits when all have settled.
\* server.js: the keys are cleaned up one after the other, then server.close().
Signal ==
    /\ ~exited
    /\ sig.pc = "none"
    /\ IF Len(activeSessions) = 0
       THEN /\ sig' = [pc |-> IF variant = "server" THEN "closing" ELSE "exited",
                       wait |-> {}]
            /\ exited' = (variant = "server3")
            /\ UNCHANGED <<reqs, container>>
       ELSE LET ids == IF variant = "server" THEN <<Head(activeSessions)>>
                                              ELSE activeSessions
            IN  /\ reqs' = reqs \o [i \in 1..Len(ids) |->
                                      CleanupCall(activeSessions, ids[i], "shutdown")]
                /\ container' = StopIssued(container, ids)
                /\ sig' = [pc |-> "cleaning",
                           wait |-> (Len(reqs) + 1)..(Len(reqs) + Len(ids))]
                /\ UNCHANGED exited
    /\ UNCHANGED <<bridgeVars, guardVars, filterVars, variant, now, activeSessions, session, createReq, timerAt>>

\* server.js: server.close() has let the open connections end; process.exit(0).
ServerClosed ==
    /\ ~exited
    /\ sig.pc = "closing"
    /\ exited' = TRUE
    /\ sig' = [sig EXCEPT !.pc = "exited"]
    /\ UNCHANGED <<bridgeVars, guardVars, filterVars, variant, now, activeSessions, session, container, createReq,
                   timerAt, reqs>>

\* ----------------------------------------------------- WebSocket connection
\* Text is a sequence of strings, read in order: keystrokes and lines under
\* inspection are held one character per element, fixed texts in one piece.
\* The notices the servers send to the client:
SessionNotFound ==
    IF variant = "server"
    THEN <<"Session not found or expired\n">>
    ELSE <<"Session not found or expired\r\n">>

\* server.js: the greeting sent when a connection is attached.
Connected ==
    <<"Connected to CentOS Development Terminal. Type your commands...\n">>

\* The notice of the stream 'error' handler.
TerminalError ==
    IF variant = "server"
    THEN <<"Terminal error occurred\n">>
    ELSE <<"\r\nTerminal error occurred. Reconnecting...\r\n">>

DigitChars == <<"0", "1", "2", "3", "4", "5", "6", "7", "8", "9">>

\* A number in a template literal: its decimal digits.
RECURSIVE Digits(_)
Digits(n) ==
    IF n < 10 THEN <<DigitChars[n + 1]>>
    ELSE Digits(n \div 10) \o <<DigitChars[(n % 10) + 1]>>

\* The commands written to the stream when a connection is bridged, each with
\* its '\n'.  server3.js builds them from the dimensions d read off the session
\* when the socket connected.
initCommands(d) ==
    IF variant = "server"
    THEN <<<<"export TERM=xterm-256color\n">>,
           <<"export PS1=\"\\u@\\h:\\w\\$ \"\n">>,
           <<"clear\n">>>>
    ELSE <<<<"export TERM=xterm-256color\n">>,
           <<"export COLUMNS=">> \o Digits(d.cols) \o <<"\n">>,
           <<"export LINES=">> \o Digits(d.rows) \o <<"\n">>,
           <<"export PS1=\"[\\u@\\h \\W]\\$ \"\n">>,
           <<"stty rows ">> \o Digits(d.rows) \o <<" cols ">> \o Digits(d.cols) \o <<"\n">>,
           <<"trap \"printf \\\"\\033[2J\\033[H\\033[3J\\\"; stty sane\" EXIT\n">>,
           <<"clear\n">>>>

\* The writes of the init loop: one stream.write per command.
InitWrites(d) ==
    [i \in 1..Len(initCommands(d)) |-> [by |-> "init", data |-> initCommands(d)[i]]]

\* A frame the server sends of its own, and a frame relaying chunk number n
\* of the stream.
Notice(text) == [by |-> "server", data |-> text, of |-> 0]

\* ConnOpen as it would be without the lookup of the session: an unknown id
\* is bridged like a known one.
ConnOpenNoLookup(id) ==
    /\ Accepting
    /\ Len(conn) < MaxConns
    /\ id \in Nameable
    /\ conn' = Append(conn, [id |-> id, notice |-> FALSE, seen |-> Len(rz),
                             pc |-> "open", dims |-> DefaultDims])
    /\ wsOut' = [wsOut EXCEPT ![Len(conn) + 1] = <<>>]
    /\ streamIn' = [streamIn EXCEPT ![Len(conn) + 1] = InitWrites(DefaultDims)]
    /\ UNCHANGED <<lifeVars, filterVars, rz, resizeLog, wsIn, commandBuffer,
                   lastCommand, streamOut, ended, reported>>

\* wss.on('connection') up to its first await.  An unknown session gets the
\* notice and is closed.  server3.js reads container and dimensions off the
\* session and calls container.exec with those dimensions in Env; server.js
\* attaches to the stream opened at creation and is bridged at once.
\* `seen` records how many resize requests had arrived when the socket opened.
\* server.js greets the client and writes its init commands here.
ConnOpen(id) ==
    /\ Accepting
    /\ Len(conn) < MaxConns
    /\ id \in Nameable
    /\ conn' = Append(conn,
          IF ~Registered(id)
          THEN [id |-> id, pc |-> "closed", notice |-> TRUE,
                dims |-> DefaultDims, seen |-> Len(rz)]
          ELSE [id |-> id, notice |-> FALSE, seen |-> Len(rz),
                pc |-> IF variant = "server" THEN "open" ELSE "exec",
                dims |-> session[id].dimensions])
    /\ wsOut' = [wsOut EXCEPT ![Len(conn) + 1] =
                    IF ~Registered(id) THEN <<Notice(SessionNotFound)>>
                    ELSE IF variant = "server" THEN <<Notice(Connected)>>
                    ELSE <<>>]
    /\ streamIn' = [streamIn EXCEPT ![Len(conn) + 1] =
                       IF Registered(id) /\ variant = "server"
                       THEN InitWrites(DefaultDims) ELSE <<>>]
    /\ UNCHANGED <<lifeVars, filterVars, rz, resizeLog, wsIn, commandBuffer,
                   lastCommand, streamOut, ended, reported>>

\* server3.js: container.exec() settles; on success exec.start() is called,
\* on failure the catch block closes the socket.
ConnExecReturn(c, ok) ==
    /\ ~exited
    /\ c \in 1..Len(conn)
    /\ conn[c].pc = "exec"
    /\ conn' = [conn EXCEPT ![c].pc = IF ok THEN "execStart" ELSE "closed"]
    /\ UNCHANGED <<lifeVars, guardVars, filterVars, rz, resizeLog>>

\* server3.js: exec.start() settles; on success the exec and stream are stored
\* on the session object read at connection time, the init commands are
\* written with the dimensions read then, and the handlers are installed.
ConnStartReturn(c, ok) ==
    /\ ~exited
    /\ c \in 1..Len(conn)
    /\ conn[c].pc = "execStart"
    /\ IF ok
       THEN /\ conn' = [conn EXCEPT ![c].pc = "open"]
            /\ session' = [session EXCEPT ![conn[c].id].exec = <<"conn", c>>]
            /\ streamIn' = [streamIn EXCEPT ![c] = InitWrites(conn[c].dims)]
       ELSE /\ conn' = [conn EXCEPT ![c].pc = "closed"]
            /\ UNCHANGED <<session, streamIn>>
    /\ UNCHANGED <<variant, now, exited, activeSessions, container, createReq,
                   timerAt, reqs, sig, rz, resizeLog, wsIn, commandBuffer,
                   lastCommand, relayVars, filterVars>>

\* --------------------------------------------------------------------- relay
maxChunkSize == 1024

\* The handlers of connection c are installed (the init commands were written
\* in the same step that installs them).
Bridged(c) == c \in 1..Len(conn) /\ streamIn[c] # <<>>

\* The exec whose stream connection c relays: server.js attaches every
\* connection to the stream opened at creation, server3.js opens one per
\* connection.
ExecOf(c) == IF variant = "server" THEN <<"create", conn[c].id>> ELSE <<"conn", c>>

\* A chunk of n bytes read from the stream; byte i depends on i, so that a
\* lost, repeated or misplaced byte shows.
Chunk(n) == [i \in 1..n |-> (i * 7) % 256]

\* chunk.toString(): UTF-8 decoding.  The bytes below 128 are kept; a byte that
\* starts no valid sequence becomes U+FFFD (no two neighbours of a Chunk form
\* a valid multi-byte sequence).
toString(chunk) == [i \in 1..Len(chunk) |-> IF chunk[i] < 128 THEN chunk[i] ELSE 65533]

\* SliceLoop as it would be with each slice one byte short.
RECURSIVE SliceLoopShort(_, _)
SliceLoopShort(chunk, i) ==
    IF i < Len(chunk)
    THEN <<SubSeq(chunk, i + 1, IF i + maxChunkSize < Len(chunk)
                                THEN i + maxChunkSize - 1 ELSE Len(chunk))>>
         \o SliceLoopShort(chunk, i + maxChunkSize)
    ELSE <<>>

\* The for loop over a large chunk from offset i (0-based): chunk.slice(i,
\* Math.min(i + maxChunkSize, chunk.length)) for i, i + maxChunkSize, ...
RECURSIVE SliceLoop(_, _)
SliceLoop(chunk, i) ==
    IF i < Len(chunk)
    THEN <<SubSeq(chunk, i + 1, IF i + maxChunkSize < Len(chunk)
                                THEN i + maxChunkSize ELSE Len(chunk))>>
         \o SliceLoop(chunk, i + maxChunkSize)
    ELSE <<>>

\* The payloads the 'data' handler sends for one chunk.
Payloads(chunk) ==
    IF variant = "server" THEN <<toString(chunk)>>
    ELSE IF Len(chunk) > maxChunkSize THEN SliceLoop(chunk, 0)
    ELSE <<chunk>>

\* The connections whose 'data' and 'error' handlers are attached to exec e.
HandlersOf(e) == {c \in 1..Len(conn) : Bridged(c) /\ ExecOf(c) = e}

\* The stream of exec e emits 'data' with a chunk: every handler attached to it
\* runs.  server3.js sends only while its socket is open; in server.js a send
\* on a closed socket throws or is dropped, and nothing is sent either.
StreamData(e, chunk) ==
    /\ ~exited
    /\ HandlersOf(e) # {}
    /\ <<e, "end">> \notin reported
    /\ \A c \in HandlersOf(e) :
          /\ Len(streamOut[c]) < MaxChunks
          /\ container[conn[c].id].state = "running"
    /\ streamOut' = [c \in 1..MaxConns |->
                        IF c \in HandlersOf(e)
                        THEN Append(streamOut[c],
                                    [data |-> chunk, open |-> conn[c].pc = "open"])
                        ELSE streamOut[c]]
    /\ wsOut' = [c \in 1..MaxConns |->
                    IF c \in HandlersOf(e) /\ conn[c].pc = "open"
                    THEN wsOut[c] \o
                         [k \in 1..Len(Payloads(chunk)) |->
                             [by |-> "process", data |-> Payloads(chunk)[k],
                              of |-> Len(streamOut[c]) + 1]]
                    ELSE wsOut[c]]
    /\ UNCHANGED <<lifeVars, bridgeVars, filterVars, wsIn, commandBuffer,
                   lastCommand, streamIn, ended, reported>>

\* The stream of exec e emits 'error' while a client is connected.  server3.js
\* tells the open sockets; server.js tells them and closes them.
StreamError(e) ==
    /\ ~exited
    /\ \E c \in HandlersOf(e) : conn[c].pc = "open"
    /\ \A c \in HandlersOf(e) :
          \A i \in 1..Len(wsOut[c]) :
              wsOut[c][i].by = "server" => wsOut[c][i].data # TerminalError
    /\ wsOut' = [c \in 1..MaxConns |->
                    IF c \in HandlersOf(e) /\ conn[c].pc = "open"
                    THEN Append(wsOut[c], Notice(TerminalError))
                    ELSE wsOut[c]]
    /\ conn' = [c \in 1..Len(conn) |->
                   IF c \in HandlersOf(e) /\ variant = "server"
                   THEN [conn[c] EXCEPT !.pc = "closed"]
                   ELSE conn[c]]
    /\ reported' = reported \cup {<<e, "error">>}
    /\ UNCHANGED <<lifeVars, rz, resizeLog, filterVars, wsIn, commandBuffer,
                   lastCommand, streamIn, streamOut, ended>>

\* The stream of exec e ends (its process exited or the runtime closed the
\* channel).  Neither file listens for 'end' or 'close' on the stream, so no
\* code of the server runs.
StreamEnd(e) ==
    /\ ~exited
    /\ HandlersOf(e) # {}
    /\ <<e, "end">> \notin reported
    /\ reported' = reported \cup {<<e, "end">>}
    /\ UNCHANGED <<lifeVars, bridgeVars, filterVars, wsIn, commandBuffer,
                   lastCommand, streamIn, wsOut, streamOut, ended>>

\* The socket of a bridged connection closes.  server3.js ends the stream of
\* its exec; server.js only logs.
WsClose(c) ==
    /\ ~exited
    /\ Bridged(c)
    /\ conn[c].pc = "open"
    /\ conn' = [conn EXCEPT ![c].pc = "closed"]
    /\ ended' = IF variant = "server3" THEN ended \cup {ExecOf(c)} ELSE ended
    /\ UNCHANGED <<lifeVars, rz, resizeLog, filterVars, wsIn, commandBuffer,
                   lastCommand, streamIn, wsOut, streamOut, reported>>

\* -------------------------------------------------------------------- resize
\* ResizeArgs with height and width exchanged.
ResizeArgsSwapped(d) == [h |-> d.cols, w |-> d.rows]

\* The argument of exec.resize for requested dimensions d.
ResizeArgs(d) == [h |-> d.rows, w |-> d.cols]

\* ResizeRequest as it would be with the dimensions stored before the exec
\* guard, so that a session without a channel is written to as well.
ResizeRequestStoresFirst(id, d) ==
    /\ Accepting
    /\ variant = "server3"
    /\ Len(rz) < MaxResizes
    /\ id \in Nameable
    /\ IF ~Registered(id)
       THEN /\ rz' = Append(rz, [id |-> id, dims |-> d, pc |-> "done",
                                 status |-> 404, exec |-> NoExec])
            /\ UNCHANGED <<resizeLog, session>>
       ELSE /\ session' = [session EXCEPT ![id].dimensions = d]
            /\ IF session[id].exec = NoExec
               THEN /\ rz' = Append(rz, [id |-> id, dims |-> d, pc |-> "done",
                                         status |-> 200, exec |-> NoExec])
                    /\ UNCHANGED resizeLog
               ELSE /\ rz' = Append(rz, [id |-> id, dims |-> d, pc |-> "resize",
                                         status |-> 0, exec |-> session[id].exec])
                    /\ resizeLog' = Append(resizeLog,
                                           [req |-> Len(rz) + 1,
                                            exec |-> session[id].exec,
                                            args |-> [h |-> d.rows, w |-> d.cols]])
    /\ UNCHANGED <<variant, now, exited, activeSessions, container, createReq,
                   timerAt, reqs, sig, conn, guardVars, filterVars>>

\* POST /api/sessions/:sessionId/resize (server3.js) up to `await exec.resize`:
\* 404 for an unknown id, plain success when the session has no exec, else the
\* runtime call is issued on the exec the session holds now.
ResizeRequest(id, d) ==
    /\ Accepting
    /\ variant = "server3"
    /\ Len(rz) < MaxResizes
    /\ id \in Nameable
    /\ IF ~Registered(id)
       THEN /\ rz' = Append(rz, [id |-> id, dims |-> d, pc |-> "done",
                                 status |-> 404, exec |-> NoExec])
            /\ UNCHANGED resizeLog
       ELSE IF session[id].exec = NoExec
       THEN /\ rz' = Append(rz, [id |-> id, dims |-> d, pc |-> "done",
                                 status |-> 200, exec |-> NoExec])
            /\ UNCHANGED resizeLog
       ELSE /\ rz' = Append(rz, [id |-> id, dims |-> d, pc |-> "resize",
                                 status |-> 0, exec |-> session[id].exec])
            /\ resizeLog' = Append(resizeLog,
                                   [req |-> Len(rz) + 1, exec |-> session[id].exec,
                                    args |-> ResizeArgs(d)])
    /\ UNCHANGED <<lifeVars, guardVars, filterVars, conn>>

\* exec.resize() settles: on success the dimensions are stored on the session
\* object and 200 is answered, on failure 500.
ResizeReturn(r, ok) ==
    /\ ~exited
    /\ r \in 1..Len(rz)
    /\ rz[r].pc = "resize"
    /\ IF ok
       THEN /\ session' = [session EXCEPT ![rz[r].id].dimensions = rz[r].dims]
            /\ rz' = [rz EXCEPT ![r].pc = "done", ![r].status = 200]
       ELSE /\ rz' = [rz EXCEPT ![r].pc = "done", ![r].status = 500]
            /\ UNCHANGED session
    /\ UNCHANGED <<variant, now, exited, activeSessions, container, createReq,
                   timerAt, reqs, sig, conn, resizeLog, guardVars, filterVars>>

\* The line session.handleResize would write after exec.resize for dimensions
\* d.  (The function is stored on the session object at connection time; no
\* code of server3.js calls it.)
SttyLine(d) ==
    <<"stty rows ">> \o Digits(d.rows) \o <<" cols ">> \o Digits(d.cols) \o <<"\n">>

\* ------------------------------------------------------------- command guard
\* Text is a sequence of one-character strings.
BLOCKED_COMMANDS ==
    {<<"s", "h", "u", "t", "d", "o", "w", "n">>,
     <<"r", "e", "b", "o", "o", "t">>,
     <<"i", "n", "i", "t">>,
     <<"p", "o", "w", "e", "r", "o", "f", "f">>,
     <<"f", "d", "i", "s", "k">>,
     <<"m", "k", "f", "s">>,
     <<"m", "k", "s", "w", "a", "p">>,
     <<"m", "o", "u", "n", "t">>,
     <<"u", "m", "o", "u", "n", "t">>,
     <<"i", "p", "t", "a", "b", "l", "e", "s">>,
     <<"i", "p", "6", "t", "a", "b", "l", "e", "s">>,
     <<"k", "e", "x", "e", "c">>,
     <<"k", "e", "r", "n", "e", "l">>,
     <<"m", "o", "d", "p", "r", "o", "b", "e">>,
     <<"i", "n", "s", "m", "o", "d">>,
     <<"r", "m", "m", "o", "d">>,
     <<"s", "y", "s", "c", "t", "l">>,
     <<"t", "c", "p", "d", "u", "m", "p">>,
     <<"w", "i", "r", "e", "s", "h", "a", "r", "k">>,
     <<"n", "m", "a", "p">>,
     <<"d", "o", "c", "k", "e", "r">>,
     <<"k", "u", "b", "e", "c", "t", "l">>,
     <<"d", "d">>,
     <<"r", "a", "w", "r", "e", "a", "d">>,
     <<"r", "a", "w", "w", "r", "i", "t", "e">>,
     <<"c", "h", "r", "o", "o", "t">>,
     <<"l", "s", "m", "o", "d">>,
     <<"l", "s", "p", "c", "i">>,
     <<"l", "s", "u", "s", "b">>}

\* The characters String.prototype.trim strips (those the model's inputs use).
Whitespace == {" ", "\t", "\n", "\r"}

UpperCase == <<"A", "B", "C", "D", "E", "F", "G", "H", "I", "J", "K", "L", "M",
               "N", "O", "P", "Q", "R", "S", "T", "U", "V", "W", "X", "Y", "Z">>
LowerCase == <<"a", "b", "c", "d", "e", "f", "g", "h", "i", "j", "k", "l", "m",
               "n", "o", "p", "q", "r", "s", "t", "u", "v", "w", "x", "y", "z">>

\* String.prototype.toLowerCase
ToLowerCase(s) ==
    [i \in 1..Len(s) |->
        IF \E j \in 1..26 : UpperCase[j] = s[i]
        THEN LowerCase[CHOOSE j \in 1..26 : UpperCase[j] = s[i]]
        ELSE s[i]]

RECURSIVE TrimStart(_)
TrimStart(s) ==
    IF s # <<>> /\ Head(s) \in Whitespace THEN TrimStart(Tail(s)) ELSE s

RECURSIVE TrimEnd(_)
TrimEnd(s) ==
    IF s # <<>> /\ s[Len(s)] \in Whitespace
    THEN TrimEnd(SubSeq(s, 1, Len(s) - 1)) ELSE s

\* String.prototype.trim
Trim(s) == TrimEnd(TrimStart(s))

\* s.split(sep)[0]: the text before the first occurrence of the character sep
RECURSIVE SplitFirst(_, _)
SplitFirst(s, sep) ==
    IF s = <<>> \/ Head(s) = sep THEN <<>>
    ELSE <<Head(s)>> \o SplitFirst(Tail(s), sep)

\* String.prototype.startsWith
StartsWith(s, p) == Len(s) >= Len(p) /\ SubSeq(s, 1, Len(p)) = p

\* isCommandBlocked: the first space-separated piece of the trimmed command,
\* lower-cased, is on the list, or starts with a listed name and a space.
isCommandBlocked(command) ==
    LET cmd == ToLowerCase(SplitFirst(Trim(command), " "))
    IN  \/ cmd \in BLOCKED_COMMANDS
        \/ \E blocked \in BLOCKED_COMMANDS : StartsWith(cmd, blocked \o <<" ">>)

\* The text the blocked branch writes.
BlockedWarning ==
    <<"\r", "\n", "T", "h", "i", "s", " ", "c", "o", "m", "m", "a", "n", "d", " ", "i", "s", " ", "b", "l", "o", "c", "k", "e", "d", " ", "f", "o", "r", " ", "s", "e", "c", "u", "r", "i", "t", "y", " ", "r", "e", "a", "s", "o", "n", "s", "\r", "\n">>

\* The byte 0x03 the q-after-top branch writes, as one character.
CtrlC == <<"^C">>

\* Message as it would be if a keystroke were forwarded only while the text
\* typed so far is not deny-listed.
MessageHoldsBlockedText(c, data) ==
    /\ ~exited
    /\ variant = "server3"
    /\ c \in 1..Len(conn)
    /\ conn[c].pc = "open"
    /\ Len(wsIn[c]) < MaxFrames
    /\ wsIn' = [wsIn EXCEPT ![c] = Append(@, data)]
    /\ session' = [session EXCEPT ![conn[c].id].lastActivity = now]
    /\ LET id == conn[c].id
           buf == Trim(commandBuffer[c])
       IN  IF data = <<"\r">> \/ data = <<"\n">>
           THEN IF buf # <<>> /\ isCommandBlocked(buf)
                THEN /\ streamIn' = [streamIn EXCEPT ![c] =
                            Append(@, [by |-> "guard", data |-> BlockedWarning])]
                     /\ commandBuffer' = [commandBuffer EXCEPT ![c] = <<>>]
                     /\ UNCHANGED lastCommand
                ELSE IF buf = <<"q">> /\ lastCommand[id] = <<"t", "o", "p">>
                THEN /\ streamIn' = [streamIn EXCEPT ![c] =
                            @ \o <<[by |-> "guard", data |-> CtrlC],
                                   [by |-> "guard", data |-> <<"\r", "\n">>]>>]
                     /\ lastCommand' = [lastCommand EXCEPT ![id] = <<>>]
                     /\ commandBuffer' = [commandBuffer EXCEPT ![c] = <<>>]
                ELSE /\ lastCommand' =
                            IF buf # <<>>
                            THEN [lastCommand EXCEPT ![id] = SplitFirst(buf, " ")]
                            ELSE lastCommand
                     /\ commandBuffer' = [commandBuffer EXCEPT ![c] = <<>>]
                     /\ streamIn' = [streamIn EXCEPT ![c] =
                            Append(@, [by |-> "client", data |-> data])]
           ELSE /\ commandBuffer' = [commandBuffer EXCEPT ![c] = @ \o data]
                /\ streamIn' = IF isCommandBlocked(Trim(commandBuffer[c] \o data))
                               THEN streamIn
                               ELSE [streamIn EXCEPT ![c] =
                                        Append(@, [by |-> "client", data |-> data])]
                /\ UNCHANGED lastCommand
    /\ UNCHANGED <<variant, now, exited, activeSessions, container, createReq,
                   timerAt, reqs, sig, bridgeVars, relayVars, filterVars>>

\* Message as it would be if the blocked branch returned without emptying
\* commandBuffer.
MessageKeepsBlockedText(c, data) ==
    /\ ~exited
    /\ variant = "server3"
    /\ c \in 1..Len(conn)
    /\ conn[c].pc = "open"
    /\ Len(wsIn[c]) < MaxFrames
    /\ wsIn' = [wsIn EXCEPT ![c] = Append(@, data)]
    /\ session' = [session EXCEPT ![conn[c].id].lastActivity = now]
    /\ LET id == conn[c].id
           buf == Trim(commandBuffer[c])
       IN  IF data = <<"\r">> \/ data = <<"\n">>
           THEN IF buf # <<>> /\ isCommandBlocked(buf)
                THEN /\ streamIn' = [streamIn EXCEPT ![c] =
                            Append(@, [by |-> "guard", data |-> BlockedWarning])]
                     /\ UNCHANGED <<commandBuffer, lastCommand>>
                ELSE IF buf = <<"q">> /\ lastCommand[id] = <<"t", "o", "p">>
                THEN /\ streamIn' = [streamIn EXCEPT ![c] =
                            @ \o <<[by |-> "guard", data |-> CtrlC],
                                   [by |-> "guard", data |-> <<"\r", "\n">>]>>]
                     /\ lastCommand' = [lastCommand EXCEPT ![id] = <<>>]
                     /\ commandBuffer' = [commandBuffer EXCEPT ![c] = <<>>]
                ELSE /\ lastCommand' =
                            IF buf # <<>>
                            THEN [lastCommand EXCEPT ![id] = SplitFirst(buf, " ")]
                            ELSE lastCommand
                     /\ commandBuffer' = [commandBuffer EXCEPT ![c] = <<>>]
                     /\ streamIn' = [streamIn EXCEPT ![c] =
                            Append(@, [by |-> "client", data |-> data])]
           ELSE /\ commandBuffer' = [commandBuffer EXCEPT ![c] = @ \o data]
                /\ streamIn' = [streamIn EXCEPT ![c] =
                       Append(@, [by |-> "client", data |-> data])]
                /\ UNCHANGED lastCommand
    /\ UNCHANGED <<variant, now, exited, activeSessions, container, createReq,
                   timerAt, reqs, sig, bridgeVars, relayVars, filterVars>>

\* ws.on('message') of server3.js for one frame `data` on connection c, whole:
\* the activity stamp, the commandBuffer bookkeeping on a lone terminator
\* (blocked line, the q-after-top case, an ordinary line), and the final
\* stream.write(data) unless a branch returned early.
Message(c, data) ==
    /\ ~exited
    /\ variant = "server3"
    /\ c \in 1..Len(conn)
    /\ conn[c].pc = "open"
    /\ Len(wsIn[c]) < MaxFrames
    /\ wsIn' = [wsIn EXCEPT ![c] = Append(@, data)]
    /\ session' = [session EXCEPT ![conn[c].id].lastActivity = now]
    /\ LET id == conn[c].id
           buf == Trim(commandBuffer[c])
       IN  IF data = <<"\r">> \/ data = <<"\n">>
           THEN IF buf # <<>> /\ isCommandBlocked(buf)
                THEN /\ streamIn' = [streamIn EXCEPT ![c] =
                            Append(@, [by |-> "guard", data |-> BlockedWarning])]
                     /\ commandBuffer' = [commandBuffer EXCEPT ![c] = <<>>]
                     /\ UNCHANGED lastCommand
                ELSE IF buf = <<"q">> /\ lastCommand[id] = <<"t", "o", "p">>
                THEN /\ streamIn' = [streamIn EXCEPT ![c] =
                            @ \o <<[by |-> "guard", data |-> CtrlC],
                                   [by |-> "guard", data |-> <<"\r", "\n">>]>>]
                     /\ lastCommand' = [lastCommand EXCEPT ![id] = <<>>]
                     /\ commandBuffer' = [commandBuffer EXCEPT ![c] = <<>>]
                ELSE /\ lastCommand' =
                            IF buf # <<>>
                            THEN [lastCommand EXCEPT ![id] = SplitFirst(buf, " ")]
                            ELSE lastCommand
                     /\ commandBuffer' = [commandBuffer EXCEPT ![c] = <<>>]
                     /\ streamIn' = [streamIn EXCEPT ![c] =
                            Append(@, [by |-> "client", data |-> data])]
           ELSE /\ commandBuffer' = [commandBuffer EXCEPT ![c] = @ \o data]
                /\ streamIn' = [streamIn EXCEPT ![c] =
                       Append(@, [by |-> "client", data |-> data])]
                /\ UNCHANGED lastCommand
    /\ UNCHANGED <<variant, now, exited, activeSessions, container, createReq,
                   timerAt, reqs, sig, bridgeVars, relayVars, filterVars>>

\* ws.on('message') of server.js for one frame `data` on connection c: the
\* activity stamp, then the frame followed by a newline is written to the
\* session's stream unless the frame is empty or all whitespace.
MessageServer(c, data) ==
    /\ ~exited
    /\ variant = "server"
    /\ c \in 1..Len(conn)
    /\ conn[c].pc = "open"
    /\ Bridged(c)
    /\ Len(wsIn[c]) < MaxFrames
    /\ wsIn' = [wsIn EXCEPT ![c] = Append(@, data)]
    /\ session' = [session EXCEPT ![conn[c].id].lastActivity = now]
    /\ streamIn' = IF Len(Trim(data)) > 0
                   THEN [streamIn EXCEPT ![c] =
                            Append(@, [by |-> "client", data |-> data \o <<"\n">>])]
                   ELSE streamIn
    /\ UNCHANGED <<variant, now, exited, activeSessions, container, createReq,
                   timerAt, reqs, sig, bridgeVars, relayVars, filterVars,
                   commandBuffer, lastCommand>>

\* --------------------------------------------------- isCommandBlocked alone
\* The only step of the filter specification: the function is applied.
CheckLine ==
    /\ verdict = "unchecked"
    /\ verdict' = IF isCommandBlocked(line) THEN "blocked" ELSE "allowed"
    /\ UNCHANGED <<lifeVars, bridgeVars, guardVars, line>>

\* ------------------------------------------------------------ specification
Next ==
    \/ \E d \in DimChoices : CreateRequest(d)
    \/ \E id \in Ids, ok \in BOOLEAN : CreateContainerReturn(id, ok)
    \/ \E id \in Ids, ok \in BOOLEAN : StartReturn(id, ok)
    \/ \E id \in Ids, ok \in BOOLEAN : ExecReturn(id, ok)
    \/ \E id \in Ids, ok \in BOOLEAN : ExecStartReturn(id, ok)
    \/ \E id \in Ids \cup {UnknownId} : DeleteRequest(id)
    \/ \E k \in 1..(MaxReqs + MaxSessions), ok \in BOOLEAN : StopReturn(k, ok)
    \/ \E k \in 1..(MaxReqs + MaxSessions), ok \in BOOLEAN : RemoveReturn(k, ok)
    \/ ReaperSweep
    \/ \E id \in Ids : TimerFire(id)
    \/ Tick
    \/ Signal
    \/ ServerClosed

Spec == Init /\ [][Next]_vars

\* The HTTP requests alone: creation, explicit termination and the cleanups
\* it starts, with no time passing and no signal (the behaviours of Spec in
\* which the clock stays at zero and the process is never told to stop).
NextLife ==
    \/ \E d \in DimChoices : CreateRequest(d)
    \/ \E id \in Ids, ok \in BOOLEAN : CreateContainerReturn(id, ok)
    \/ \E id \in Ids, ok \in BOOLEAN : StartReturn(id, ok)
    \/ \E id \in Ids, ok \in BOOLEAN : ExecReturn(id, ok)
    \/ \E id \in Ids, ok \in BOOLEAN : ExecStartReturn(id, ok)
    \/ \E id \in Ids \cup {UnknownId} : DeleteRequest(id)
    \/ \E k \in 1..(MaxReqs + MaxSessions), ok \in BOOLEAN : StopReturn(k, ok)
    \/ \E k \in 1..(MaxReqs + MaxSessions), ok \in BOOLEAN : RemoveReturn(k, ok)

SpecLife == Init /\ [][NextLife]_vars

\* One session with its WebSocket connections and resize requests, under
\* explicit termination.
NextBridge ==
    \/ \E d \in DimChoices : createReq[1].pc = "idle" /\ CreateRequest(d)
    \/ \E id \in Ids, ok \in BOOLEAN : CreateContainerReturn(id, ok)
    \/ \E id \in Ids, ok \in BOOLEAN : StartReturn(id, ok)
    \/ \E id \in Ids, ok \in BOOLEAN : ExecReturn(id, ok)
    \/ \E id \in Ids, ok \in BOOLEAN : ExecStartReturn(id, ok)
    \/ \E id \in Ids \cup {UnknownId} : ConnOpen(id)
    \/ \E c \in 1..MaxConns, ok \in BOOLEAN : ConnExecReturn(c, ok)
    \/ \E c \in 1..MaxConns, ok \in BOOLEAN : ConnStartReturn(c, ok)
    \/ \E id \in Ids \cup {UnknownId}, d \in DimChoices : ResizeRequest(id, d)
    \/ \E r \in 1..MaxResizes, ok \in BOOLEAN : ResizeReturn(r, ok)
    \/ \E id \in Ids \cup {UnknownId} : DeleteRequest(id)
    \/ \E k \in 1..(MaxReqs + MaxSessions), ok \in BOOLEAN : StopReturn(k, ok)
    \/ \E k \in 1..(MaxReqs + MaxSessions), ok \in BOOLEAN : RemoveReturn(k, ok)

SpecBridge == Init /\ [][NextBridge]_vars

\* One session, created with the default dimensions, with its WebSocket
\* connections and resize requests while it stays registered.
NextResize ==
    \/ createReq[1].pc = "idle" /\ CreateRequest(DefaultDims)
    \/ \E id \in Ids, ok \in BOOLEAN : CreateContainerReturn(id, ok)
    \/ \E id \in Ids, ok \in BOOLEAN : StartReturn(id, ok)
    \/ \E id \in Ids, ok \in BOOLEAN : ExecReturn(id, ok)
    \/ \E id \in Ids, ok \in BOOLEAN : ExecStartReturn(id, ok)
    \/ \E id \in Ids \cup {UnknownId} : ConnOpen(id)
    \/ \E c \in 1..MaxConns, ok \in BOOLEAN : ConnExecReturn(c, ok)
    \/ \E c \in 1..MaxConns, ok \in BOOLEAN : ConnStartReturn(c, ok)
    \/ \E id \in Ids \cup {UnknownId}, d \in DimChoices : ResizeRequest(id, d)
    \/ \E r \in 1..MaxResizes, ok \in BOOLEAN : ResizeReturn(r, ok)

SpecResize == Init /\ [][NextResize]_vars

\* A session of server3.js with one bridged WebSocket connection, nothing
\* received yet: the state the bridge specification reaches by a successful
\* create followed by a successful connection.
GuardStart ==
    /\ variant = "server3"
    /\ now = 0
    /\ exited = FALSE
    /\ activeSessions = <<1>>
    /\ session = [i \in Ids |->
                    IF i = 1 THEN [container |-> 1, dimensions |-> DefaultDims,
                                   lastActivity |-> 0, exec |-> <<"conn", 1>>]
                             ELSE NoSession]
    /\ container = [i \in Ids |->
                      IF i = 1 THEN [state |-> "running", stops |-> 0, removes |-> 0]
                               ELSE NoContainer]
    /\ createReq = [i \in Ids |->
                      IF i = 1 THEN [pc |-> "done", dims |-> DefaultDims, status |-> 200,
                                     container |-> 1]
                               ELSE NoCreate]
    /\ timerAt = [i \in Ids |-> -1]
    /\ reqs = <<>>
    /\ sig = NoSig
    /\ conn = <<[id |-> 1, notice |-> FALSE, seen |-> 0, pc |-> "open",
                 dims |-> DefaultDims]>>
    /\ rz = <<>>
    /\ resizeLog = <<>>

InitGuard ==
    /\ GuardStart
    /\ wsIn = [c \in 1..MaxConns |-> <<>>]
    /\ commandBuffer = [c \in 1..MaxConns |-> <<>>]
    /\ lastCommand = [i \in Ids |-> <<>>]
    /\ streamIn = [c \in 1..MaxConns |->
                      IF c = 1 THEN InitWrites(DefaultDims) ELSE <<>>]
    /\ wsOut = [c \in 1..MaxConns |-> <<>>]
    /\ streamOut = [c \in 1..MaxConns |-> <<>>]
    /\ ended = {}
    /\ reported = {}
    /\ line = <<>>
    /\ verdict = "unchecked"

\* The frames a client sends: single keystrokes and pasted text.
Frames ==
    {<<"d">>, <<"q">>, <<" ">>, <<"\r">>, <<"\n">>,
     <<"d", "d">>, <<"t", "o", "p">>, <<"d", "d", "\r">>}

NextGuard ==
    \/ \E c \in 1..MaxConns, data \in Frames : Message(c, data)
    \/ Tick

\* The message handler of one bridged connection, fed frames.
SpecGuard == InitGuard /\ [][NextGuard]_vars

\* What a client types in the teardown specification: a deny-listed name in
\* one frame, and the Enter key.
TeardownFrames == {<<"d", "d">>, <<"\r">>}

\* The output the process produces there: a short chunk.
TeardownChunk == Chunk(3)

\* A bridged session of server3.js that is terminated, by DELETE or by the
\* reaper, while its client types, its process prints and its socket may
\* close.
NextTeardown ==
    \/ \E c \in 1..MaxConns, data \in TeardownFrames : Message(c, data)
    \/ \E c \in 1..MaxConns : StreamData(<<"conn", c>>, TeardownChunk)
    \/ \E c \in 1..MaxConns : StreamError(<<"conn", c>>)
    \/ \E c \in 1..MaxConns : WsClose(c)
    \/ \E id \in Ids : DeleteRequest(id)
    \/ \E k \in 1..(MaxReqs + MaxSessions), ok \in BOOLEAN : StopReturn(k, ok)
    \/ \E k \in 1..(MaxReqs + MaxSessions), ok \in BOOLEAN : RemoveReturn(k, ok)
    \/ ReaperSweep
    \/ Tick

SpecTeardown == InitGuard /\ [][NextTeardown]_vars

\* A bridged session of server3.js whose client types while its process
\* prints, until the socket closes.
NextTyping ==
    \/ \E c \in 1..MaxConns, data \in TeardownFrames : Message(c, data)
    \/ \E c \in 1..MaxConns : StreamData(<<"conn", c>>, TeardownChunk)
    \/ \E c \in 1..MaxConns : StreamError(<<"conn", c>>)
    \/ \E c \in 1..MaxConns : WsClose(c)

SpecTyping == InitGuard /\ [][NextTyping]_vars

\* The same where the output the process may still print is delivered and the
\* socket is closed in the end.  (The message handler is synchronous: once it
\* has returned, the server has nothing left to do for the frame.)
SpecTypingFair ==
    /\ SpecTyping
    /\ WF_vars(\E c \in 1..MaxConns : StreamData(<<"conn", c>>, TeardownChunk))
    /\ WF_vars(\E c \in 1..MaxConns : WsClose(c))

\* A session of server.js with one attached WebSocket connection, nothing
\* received yet: the state reached by a successful create at time 0 followed
\* by a connection.
RelayStart ==
    /\ variant = "server"
    /\ now = 0
    /\ exited = FALSE
    /\ activeSessions = <<1>>
    /\ session = [i \in Ids |->
                    IF i = 1 THEN [container |-> 1, dimensions |-> DefaultDims,
                                   lastActivity |-> 0, exec |-> <<"create", 1>>]
                             ELSE NoSession]
    /\ container = [i \in Ids |->
                      IF i = 1 THEN [state |-> "running", stops |-> 0, removes |-> 0]
                               ELSE NoContainer]
    /\ createReq = [i \in Ids |->
                      IF i = 1 THEN [pc |-> "done", dims |-> DefaultDims, status |-> 200,
                                     container |-> 1]
                               ELSE NoCreate]
    /\ timerAt = [i \in Ids |-> IF i = 1 THEN IdleThreshold ELSE -1]
    /\ reqs = <<>>
    /\ sig = NoSig
    /\ conn = <<[id |-> 1, notice |-> FALSE, seen |-> 0, pc |-> "open",
                 dims |-> DefaultDims]>>
    /\ rz = <<>>
    /\ resizeLog = <<>>
    /\ wsIn = [c \in 1..MaxConns |-> <<>>]
    /\ commandBuffer = [c \in 1..MaxConns |-> <<>>]
    /\ lastCommand = [i \in Ids |-> <<>>]
    /\ streamIn = [c \in 1..MaxConns |->
                      IF c = 1 THEN InitWrites(DefaultDims) ELSE <<>>]
    /\ wsOut = [c \in 1..MaxConns |-> IF c = 1 THEN <<Notice(Connected)>> ELSE <<>>]
    /\ streamOut = [c \in 1..MaxConns |-> <<>>]
    /\ ended = {}
    /\ reported = {}
    /\ line = <<>>
    /\ verdict = "unchecked"

\* A bridged session of either server.
InitRelay == InitGuard \/ RelayStart

\* The sizes of the chunks the process prints: a byte, sizes around one and
\* two frames, and a burst of 5000 bytes.
ChunkLens == {1, 1023, 1024, 1025, 2048, 5000}

\* The execs a stream event can come from.
Execs == {<<"conn", c>> : c \in 1..MaxConns} \cup {<<"create", i>> : i \in Ids}

\* The relay from the process to the client of a bridged session, until the
\* socket closes and after.
NextRelay ==
    \/ \E e \in Execs, n \in ChunkLens : StreamData(e, Chunk(n))
    \/ \E e \in Execs : StreamError(e)
    \/ \E c \in 1..MaxConns : WsClose(c)

SpecRelay == InitRelay /\ [][NextRelay]_vars

\* One session and the WebSocket connections made to it or to an unknown id:
\* connecting, typing a key, closing.
NextConnect ==
    \/ \E d \in DimChoices : createReq[1].pc = "idle" /\ CreateRequest(d)
    \/ \E id \in Ids, ok \in BOOLEAN : CreateContainerReturn(id, ok)
    \/ \E id \in Ids, ok \in BOOLEAN : StartReturn(id, ok)
    \/ \E id \in Ids, ok \in BOOLEAN : ExecReturn(id, ok)
    \/ \E id \in Ids, ok \in BOOLEAN : ExecStartReturn(id, ok)
    \/ \E id \in Ids \cup {UnknownId} : ConnOpen(id)
    \/ \E c \in 1..MaxConns, ok \in BOOLEAN : ConnExecReturn(c, ok)
    \/ \E c \in 1..MaxConns, ok \in BOOLEAN : ConnStartReturn(c, ok)
    \/ \E c \in 1..MaxConns : Message(c, <<"d">>)
    \/ \E c \in 1..MaxConns : WsClose(c)

SpecConnect == Init /\ [][NextConnect]_vars

\* The same with the clients of server.js typing as well.
NextAttach ==
    \/ NextConnect
    \/ \E c \in 1..MaxConns : MessageServer(c, <<"d">>)

SpecAttach == Init /\ [][NextAttach]_vars

\* No create request is between its first await and its answer.
NoCreateInFlight == \A i \in Ids : createReq[i].pc \in {"idle", "done", "failed"}

\* The sessions left to the background: sessions created one after the other
\* (every runtime call of the creation succeeds), the clock, the reaper sweeps,
\* the creation timers of server.js, and the teardowns they start.
NextReaper ==
    \/ NoCreateInFlight /\ CreateRequest(DefaultDims)
    \/ \E id \in Ids : CreateContainerReturn(id, TRUE)
    \/ \E id \in Ids : StartReturn(id, TRUE)
    \/ \E id \in Ids : ExecReturn(id, TRUE)
    \/ \E id \in Ids : ExecStartReturn(id, TRUE)
    \/ \E k \in 1..(MaxReqs + MaxSessions), ok \in BOOLEAN : StopReturn(k, ok)
    \/ \E k \in 1..(MaxReqs + MaxSessions), ok \in BOOLEAN : RemoveReturn(k, ok)
    \/ ReaperSweep
    \/ \E id \in Ids : TimerFire(id)
    \/ Tick

SpecReaper == Init /\ [][NextReaper]_vars

\* The same where every call made to the container runtime settles: the
\* promise of container.stop() or container.remove() resolves or rejects.
SpecReaperFair ==
    /\ SpecReaper
    /\ \A k \in 1..(MaxReqs + MaxSessions) :
          /\ WF_vars(\E ok \in BOOLEAN : StopReturn(k, ok))
          /\ WF_vars(\E ok \in BOOLEAN : RemoveReturn(k, ok))

\* A bridged session of either file whose client sends frames while time
\* passes and the background timers run.
NextIdle ==
    \/ \E c \in 1..MaxConns, data \in TeardownFrames : Message(c, data)
    \/ \E c \in 1..MaxConns, data \in TeardownFrames : MessageServer(c, data)
    \/ Tick
    \/ ReaperSweep
    \/ \E id \in Ids : TimerFire(id)
    \/ \E k \in 1..(MaxReqs + MaxSessions), ok \in BOOLEAN : StopReturn(k, ok)
    \/ \E k \in 1..(MaxReqs + MaxSessions), ok \in BOOLEAN : RemoveReturn(k, ok)

SpecIdle == InitRelay /\ [][NextIdle]_vars

\* A bridged session of either file whose process prints, whose stream
\* reports an error or ends, and whose socket may close.
NextFault ==
    \/ \E e \in Execs, n \in ChunkLens : StreamData(e, Chunk(n))
    \/ \E e \in Execs : StreamError(e)
    \/ \E e \in Execs : StreamEnd(e)
    \/ \E c \in 1..MaxConns : WsClose(c)

SpecFault == InitRelay /\ [][NextFault]_vars

\* A bridged session of server3.js whose socket may close and whose client
\* may connect again, while resize requests arrive.
NextRetire ==
    \/ \E c \in 1..MaxConns : WsClose(c)
    \/ \E id \in Ids : ConnOpen(id)
    \/ \E c \in 1..MaxConns, ok \in BOOLEAN : ConnExecReturn(c, ok)
    \/ \E c \in 1..MaxConns, ok \in BOOLEAN : ConnStartReturn(c, ok)
    \/ \E id \in Ids \cup {UnknownId}, d \in DimChoices : ResizeRequest(id, d)
    \/ \E r \in 1..MaxResizes, ok \in BOOLEAN : ResizeReturn(r, ok)

SpecRetire == InitGuard /\ [][NextRetire]_vars

\* The lines isCommandBlocked is tried on: every text over FilterChars up to
\* MaxLineLen characters, and the three lines of the spec's filtering table.
FilterChars == {"d", "D", "x", " ", "\t"}

Lines ==
    UNION {[1..n -> FilterChars] : n \in 0..MaxLineLen}
    \cup {<<"r", "e", "b", "o", "o", "t", "\n">>,
          <<"r", "e", "b", "o", "o", "t", " ", "n", "o", "w", "\n">>,
          <<"r", "e", "b", "o", "o", "t", "a", "b", "l", "e", "-", "s", "c", "r", "i", "p", "t", ".", "s", "h", "\n">>}

InitFilter ==
    /\ variant = "server3"
    /\ now = 0
    /\ exited = FALSE
    /\ activeSessions = <<>>
    /\ session = [i \in Ids |-> NoSession]
    /\ container = [i \in Ids |-> NoContainer]
    /\ createReq = [i \in Ids |-> NoCreate]
    /\ timerAt = [i \in Ids |-> -1]
    /\ reqs = <<>>
    /\ sig = NoSig
    /\ conn = <<>>
    /\ rz = <<>>
    /\ resizeLog = <<>>
    /\ wsIn = [c \in 1..MaxConns |-> <<>>]
    /\ commandBuffer = [c \in 1..MaxConns |-> <<>>]
    /\ lastCommand = [i \in Ids |-> <<>>]
    /\ streamIn = [c \in 1..MaxConns |-> <<>>]
    /\ wsOut = [c \in 1..MaxConns |-> <<>>]
    /\ streamOut = [c \in 1..MaxConns |-> <<>>]
    /\ ended = {}
    /\ reported = {}
    /\ line \in Lines
    /\ verdict = "unchecked"

\* isCommandBlocked applied to one line.
SpecFilter == InitFilter /\ [][CheckLine]_vars

\* ------------------------------------------------------------------- claims
\* The DELETE calls made for a session id, by index into reqs.
IsDelete(k) == reqs[k].origin = "delete" /\ reqs[k].id \in Ids

\* C1: a second terminate call on the same session id never gets an error
\* response, and once a terminate call has completed the registry holds no
\* entry for that id.
C1_TerminateTwiceNeverErrors ==
    \A k \in 1..Len(reqs) :
        IsDelete(k) /\ reqs[k].pc = "done" =>
            /\ ~Registered(reqs[k].id)
            /\ (\E j \in 1..(k - 1) : IsDelete(j) /\ reqs[j].id = reqs[k].id)
                   => reqs[k].status = 200

\* C1 as server3.js alone realises it (server.js is where it fails).
C1_HoldsOnServer3 == variant = "server3" => C1_TerminateTwiceNeverErrors

\* C2: when container.stop or container.remove fails during cleanupSession, the
\* registry entry is absent once cleanupSession has finished, the call resolved
\* rather than rejected, and a DELETE caller got its success answer.
C2_FailOpenCleanup ==
    \A k \in 1..Len(reqs) :
        reqs[k].pc = "done" /\ reqs[k].failed =>
            /\ ~Registered(reqs[k].id)
            /\ ~reqs[k].threw
            /\ (reqs[k].origin = "delete" => reqs[k].status = 200)

\* A cleanup of a created session has finished after its teardown failed.
C2_Witness ==
    \E k \in 1..Len(reqs) :
        /\ reqs[k].pc = "done" /\ reqs[k].failed /\ reqs[k].id \in Ids
        /\ createReq[reqs[k].id].pc = "done"
        /\ container[reqs[k].id].stops >= 1

\* C3: container.stop is issued at most once for every session, whatever the
\* interleaving of deletes, reaper sweeps, creation timeouts and shutdown.
C3_StopAtMostOnce == \A id \in Ids : container[id].stops <= 1

\* C4: a create-session request that failed at a provisioning step answered
\* with a failure and left no registry entry for the id generated for it.
C4_FailedCreateNotRegistered ==
    \A id \in Ids :
        createReq[id].pc = "failed" =>
            createReq[id].status = 500 /\ ~Registered(id)

\* Creates have failed at the first step and after the container was started.
C4_Witness ==
    /\ \E id \in Ids : createReq[id].pc = "failed" /\ container[id].state = "running"
    /\ \E id \in Ids : createReq[id].pc = "failed" /\ container[id].state = "none"

\* C5: when create-session has failed, the container created for it has been
\* removed (no sandbox is left that no registered session owns).
C5_FailedCreateRemovesSandbox ==
    \A id \in Ids :
        createReq[id].pc = "failed" => container[id].state \in {"none", "removed"}

\* The runtime resize calls recorded for resize request r, in log lg.
CallsFor(lg, r) == {i \in 1..Len(lg) : lg[i].req = r}

\* Resize request r gets its success answer in this step.
ResizeSucceeds(r) ==
    /\ r \in 1..Len(rz')
    /\ rz'[r].pc = "done" /\ rz'[r].status = 200
    /\ (r > Len(rz) \/ rz[r].pc # "done")

\* What C6 promises of request r at the moment it is answered.
ResizeStoredAndCalledOnce(r) ==
    /\ session'[rz'[r].id].dimensions = rz'[r].dims
    /\ Cardinality(CallsFor(resizeLog', r)) = 1
    /\ \A i \in CallsFor(resizeLog', r) :
          resizeLog'[i].args.w = rz'[r].dims.cols /\
          resizeLog'[i].args.h = rz'[r].dims.rows

ResizesOf(id) == {r \in 1..Len(rz) : rz[r].id = id}

Latest(S) == CHOOSE r \in S : \A q \in S : q <= r

\* C7: once the resize requests made for a session have all returned success,
\* the stored dimensions are those of the most recently requested resize, and
\* every process channel opened after that request was created and
\* initialised with exactly those dimensions.
C7_DimensionsFollowLatestResize ==
    \A id \in Ids :
        (/\ ResizesOf(id) # {}
         /\ \A r \in ResizesOf(id) : rz[r].pc = "done" /\ rz[r].status = 200)
        => /\ session[id].dimensions = rz[Latest(ResizesOf(id))].dims
           /\ \A c \in 1..Len(conn) :
                 (conn[c].id = id /\ ~conn[c].notice /\
                  conn[c].seen >= Latest(ResizesOf(id)))
                 => conn[c].dims = rz[Latest(ResizesOf(id))].dims

\* C8: a resize request for an unknown session id is answered NotFound, and
\* one for a known session without a process channel is answered with success
\* and no runtime call; either way the registry, the session records and the
\* runtime's resize log stay as they were.
C8_ResizeWithoutChannelChangesNothing ==
    [][Len(rz') = Len(rz) + 1 =>
         LET r == rz'[Len(rz')]
         IN  /\ ~Registered(r.id) =>
                   /\ r.pc = "done" /\ r.status = 404
                   /\ UNCHANGED <<activeSessions, session, resizeLog>>
             /\ (Registered(r.id) /\ session[r.id].exec = NoExec) =>
                   /\ r.pc = "done" /\ r.status = 200
                   /\ UNCHANGED <<activeSessions, session, resizeLog>>]_vars

\* Both cases happened: a 404 for an id not registered, and a success for a
\* registered session without exec, asking for dimensions it does not have.
C8_Witness ==
    /\ \E r \in 1..Len(rz) : rz[r].status = 404
    /\ \E r \in 1..Len(rz) :
          /\ rz[r].status = 200 /\ rz[r].exec = NoExec
          /\ Registered(rz[r].id)
          /\ session[rz[r].id].exec = NoExec
          /\ rz[r].dims # session[rz[r].id].dimensions

\* The first whitespace-delimited token of a text.
RECURSIVE FirstToken(_)
FirstToken(s) ==
    IF s = <<>> \/ Head(s) \in Whitespace THEN <<>>
    ELSE <<Head(s)>> \o FirstToken(Tail(s))

\* C9: isCommandBlocked(line) is true exactly when the first
\* whitespace-delimited token of the trimmed line, compared case-insensitively,
\* is a name on the deny-list.
C9_BlockedIffFirstTokenDenied ==
    verdict # "unchecked" =>
        (verdict = "blocked" <=>
            ToLowerCase(FirstToken(TrimStart(line))) \in BLOCKED_COMMANDS)

\* A terminator frame arrives on connection c in this step while the
\* inspection buffer holds a deny-listed command.
BlockedLineEnds(c) ==
    /\ Len(wsIn'[c]) = Len(wsIn[c]) + 1
    /\ wsIn'[c][Len(wsIn'[c])] \in {<<"\r">>, <<"\n">>}
    /\ Trim(commandBuffer[c]) # <<>>
    /\ isCommandBlocked(Trim(commandBuffer[c]))

\* The writes a step adds to the stream of connection c.
Written(c) == SubSeq(streamIn'[c], Len(streamIn[c]) + 1, Len(streamIn'[c]))

\* C10: when a line terminator arrives while the inspection buffer holds a
\* deny-listed command, no carriage return or newline, the client's or one
\* written by the server, is written to the process channel's input after the
\* keystrokes of that line.
C10_BlockedLineNeverCompleted ==
    [][\A c \in 1..MaxConns :
          BlockedLineEnds(c) =>
              \A i \in 1..Len(Written(c)) :
                  \A j \in 1..Len(Written(c)[i].data) :
                      Written(c)[i].data[j] \notin {"\r", "\n"}]_vars

\* The blocked branch of the message handler of connection c has run.
GuardBlocked(c) ==
    \E i \in 1..Len(streamIn[c]) :
        streamIn[c][i].by = "guard" /\ streamIn[c][i].data = BlockedWarning

\* The server has sent the warning to the client of connection c.
Warned(c) ==
    \E j \in 1..Len(wsOut[c]) :
        wsOut[c][j].by = "server" /\ wsOut[c][j].data = BlockedWarning

\* C11: whenever the command guard blocks a line of a connection, the server
\* sooner or later sends a warning to the client on that connection.
C11_BlockedLineWarnsClient ==
    \A c \in 1..MaxConns : GuardBlocked(c) ~> Warned(c)

\* The cleanups a step starts on behalf of the reaper, by index into reqs'.
SweepCalls == {k \in (Len(reqs) + 1)..Len(reqs') : reqs'[k].origin = "reaper"}

\* Session id is registered and idle for more than 30 minutes.
IdleTooLong(id) == Registered(id) /\ now - session[id].lastActivity > 30 * 60 * 1000

\* A step that is a reaper sweep starts a teardown for every session idle
\* beyond the threshold and for no other; the other sessions keep their
\* entry, their record and their container as they were.
SweepExact ==
    SweepCalls # {} =>
        \A id \in Ids :
            /\ IdleTooLong(id) <=> \E k \in SweepCalls : reqs'[k].id = id
            /\ ~IdleTooLong(id) =>
                   /\ Registered(id) <=> (\E i \in 1..Len(activeSessions') :
                                              activeSessions'[i] = id)
                   /\ session'[id] = session[id]
                   /\ container'[id] = container[id]

\* The reaper has started a teardown of session id.
Reaped(id) == \E k \in 1..Len(reqs) : reqs[k].origin = "reaper" /\ reqs[k].id = id

\* C12: one reaper sweep terminates every session idle for more than the
\* 30-minute threshold, whose registry entry is removed in the end, and leaves
\* untouched every session within the threshold.
C12_SweepTerminatesExactlyTheIdle ==
    /\ [][SweepExact]_vars
    /\ \A id \in Ids : Reaped(id) ~> ~Registered(id)

\* A sweep has reaped one session, whose entry is gone, and left alone another
\* that was active within the threshold.
C12_Witness ==
    \E i, j \in Ids :
        /\ Reaped(i) /\ ~Registered(i)
        /\ Registered(j) /\ ~Reaped(j)
        /\ now - session[j].lastActivity <= IdleThreshold
        /\ \A k \in 1..Len(reqs) : reqs[k].id # j

\* The teardowns the reaper started, by index into reqs.
ReaperCalls == {k \in 1..Len(reqs) : reqs[k].origin = "reaper"}

\* C13: once the teardowns started by the reaper have settled, with or
\* without a failure among them, every session they were started for is
\* absent from the registry.
C13_SweepSurvivesTeardownFailure ==
    (\A k \in ReaperCalls : reqs[k].pc = "done") =>
        \A k \in ReaperCalls : ~Registered(reqs[k].id)

\* One sweep started two teardowns; one failed, the other did not, both have
\* settled and both sessions are gone.
C13_Witness ==
    \E k \in ReaperCalls :
        /\ k + 1 \in ReaperCalls
        /\ reqs[k].id # reqs[k + 1].id
        /\ reqs[k].pc = "done" /\ reqs[k + 1].pc = "done"
        /\ reqs[k].failed /\ ~reqs[k + 1].failed
        /\ ~Registered(reqs[k].id) /\ ~Registered(reqs[k + 1].id)
\* The frames sent on connection c for chunk number i of its stream, in send
\* order.
FramesOf(c, i) ==
    SelectSeq(wsOut[c], LAMBDA f : f.by = "process" /\ f.of = i)

\* The payloads of a sequence of frames, joined.
RECURSIVE Joined(_)
Joined(fs) == IF fs = <<>> THEN <<>> ELSE Head(fs).data \o Joined(Tail(fs))

\* C14: in server3.js, for every chunk of n bytes read from the process
\* channel while the transport is open, the frames sent for it carry at most
\* 1024 bytes each, there are ceil(n / 1024) of them, and joined in send order
\* they are the chunk byte for byte.
C14_ChunkedInOrder ==
    variant = "server3" =>
        \A c \in 1..Len(conn) :
            \A i \in 1..Len(streamOut[c]) :
                streamOut[c][i].open =>
                    LET n == Len(streamOut[c][i].data)
                        fs == FramesOf(c, i)
                    IN  /\ \A k \in 1..Len(fs) : Len(fs[k].data) <= 1024
                        /\ Len(fs) = (n + 1023) \div 1024
                        /\ Joined(fs) = streamOut[c][i].data

\* A burst of 5000 bytes went out as five frames, and a chunk of exactly 1024
\* bytes as one.
C14_Witness ==
    /\ variant = "server3"
    /\ \E c \in 1..Len(conn) :
          \E i, j \in 1..Len(streamOut[c]) :
              /\ streamOut[c][i].open /\ Len(streamOut[c][i].data) = 5000
              /\ Len(FramesOf(c, i)) = 5
              /\ streamOut[c][j].open /\ Len(streamOut[c][j].data) = 1024
              /\ Len(FramesOf(c, j)) = 1

\* The bridge of connection c is live: its handlers are installed, its socket
\* is open and its process channel has not been ended.
Live(c) == Bridged(c) /\ conn[c].pc = "open" /\ ExecOf(c) \notin ended

\* C15: at most one bridge is live per session at any instant (an earlier
\* bridge is retired before a new one relays, or the new connection is
\* rejected).
C15_AtMostOneLiveBridge ==
    \A c, d \in 1..Len(conn) :
        Live(c) /\ Live(d) /\ conn[c].id = conn[d].id => c = d

\* Connection c was made with a session id the registry did not hold.
Rejected(c) == c \in 1..Len(conn) /\ conn[c].notice

\* The connections a step opens for an id that is not registered.
OpenedUnknown ==
    {c \in (Len(conn) + 1)..Len(conn') : ~Registered(conn'[c].id)}

\* C16: a connection whose session id is not in the registry is sent the
\* notice and closed in the step that accepts it, which leaves the registry,
\* the session records and the containers as they were; it never gets a
\* process channel or a message handler afterwards.
C16_UnknownSessionRejected ==
    [][/\ \A c \in OpenedUnknown :
              /\ conn'[c].pc = "closed"
              /\ wsOut'[c] = <<Notice(SessionNotFound)>>
              /\ streamIn'[c] = <<>>
              /\ UNCHANGED <<activeSessions, session, container>>
       /\ \A c \in 1..Len(conn) :
              Rejected(c) =>
                  /\ conn'[c] = conn[c]
                  /\ streamIn'[c] = <<>> /\ wsIn'[c] = <<>>
                  /\ \A i \in Ids : session'[i].exec # <<"conn", c>>]_vars

\* A connection for an unknown id was rejected while the session of another
\* connection is bridged and has received a frame.
C16_Witness ==
    \E c, d \in 1..Len(conn) :
        /\ Rejected(c) /\ conn[c].pc = "closed"
        /\ wsOut[c] = <<Notice(SessionNotFound)>>
        /\ Live(d) /\ wsIn[d] # <<>>

\* C17: the session ids the create calls have returned are pairwise distinct
\* (each is one key of the registry, held once), and no two registry entries
\* refer to the same sandbox handle.
C17_DistinctIdsAndSandboxes ==
    /\ \A i, j \in 1..Len(activeSessions) :
          activeSessions[i] = activeSessions[j] => i = j
    /\ \A i, j \in Ids :
          Registered(i) /\ Registered(j) /\ i # j =>
              /\ session[i].container # 0
              /\ session[i].container # session[j].container
    /\ \A i \in Ids :
          createReq[i].status = 200 =>
              session[i].container = createReq[i].container

\* Two create calls overlapped (the one that drew its id first registered
\* last) and both sessions are registered, each with its own container.
C17_Witness ==
    /\ activeSessions = <<2, 1>>
    /\ session[1].container # session[2].container
    /\ createReq[1].status = 200 /\ createReq[2].status = 200

\* Session id was created and a termination of it has completed: its entry is
\* gone from the registry.
Terminated(id) ==
    /\ createReq[id].pc = "done"
    /\ ~Registered(id)
    /\ \E k \in 1..Len(reqs) : reqs[k].id = id /\ reqs[k].pc = "done"

\* The handlers of connection c are installed after the step.
BridgedNext(c) == c \in 1..Len(conn') /\ streamIn'[c] # <<>>

\* C18: once termination has removed a session's registry entry, no step
\* changes the session record (exec, dimensions, lastActivity, lastCommand),
\* and no connection made for the session moves on to open or attach a process
\* channel or to install its handlers.
C18_NothingAfterTermination ==
    [][\A id \in Ids :
          Terminated(id) =>
              /\ session'[id] = session[id]
              /\ lastCommand'[id] = lastCommand[id]
              /\ \A c \in 1..Len(conn) :
                     conn[c].id = id =>
                         /\ conn'[c].pc \in {conn[c].pc, "closed"}
                         /\ BridgedNext(c) => Bridged(c)]_vars

\* The bridged connections made for session id.
BridgesOf(id) == {c \in 1..Len(conn) : conn[c].id = id /\ Bridged(c)}

\* C19: after a termination (explicit deletion or reaping) of a session has
\* completed, no bridge of the session is live any more, no client input is
\* written to its process channel and no output is sent on its transport.
C19_TerminationCancelsRelay ==
    /\ [](\A id \in Ids : Terminated(id) => \A c \in BridgesOf(id) : ~Live(c))
    /\ [][\A id \in Ids :
             Terminated(id) =>
                 \A c \in BridgesOf(id) :
                     /\ streamIn'[c] = streamIn[c]
                     /\ wsOut'[c] = wsOut[c]]_vars

\* The step closes the transport of connection c.
Closes(c) == conn[c].pc = "open" /\ conn'[c].pc = "closed"

\* C20: when the transport of a bridged connection closes, the input of its
\* process channel is ended and the registry and the sandboxes are left as they
\* were; once it is closed, no further frame is sent on it.
C20_TransportCloseEndsChannel ==
    [][\A c \in 1..Len(conn) :
          Bridged(c) =>
              /\ Closes(c) =>
                     /\ ExecOf(c) \in ended'
                     /\ activeSessions' = activeSessions
                     /\ container' = container
              /\ conn[c].pc = "closed" => wsOut'[c] = wsOut[c]]_vars

\* Every bridge made for session id has been closed, and there was one.
Retired(id) ==
    /\ BridgesOf(id) # {}
    /\ \A c \in BridgesOf(id) : conn[c].pc = "closed"

\* The step receives a resize request for session id.
ResizeArrives(id) == Len(rz') = Len(rz) + 1 /\ rz'[Len(rz')].id = id

\* C21: once the bridges of a registered session have closed, the session
\* record exposes no process channel, and a resize request for the session is
\* answered 200 without a runtime resize call being issued.
C21_ClosedBridgeReleasesChannel ==
    /\ [](\A id \in Ids : Registered(id) /\ Retired(id) => session[id].exec = NoExec)
    /\ [][\A id \in Ids :
             Registered(id) /\ Retired(id) /\ ResizeArrives(id) =>
                 /\ rz'[Len(rz')].pc = "done"
                 /\ rz'[Len(rz')].status = 200
                 /\ resizeLog' = resizeLog]_vars
\* The step in which the stream of exec e emits the event ev.
Reports(e, ev) == <<e, ev>> \in reported' /\ <<e, ev>> \notin reported

\* Connection c has been sent the terminal error message after the step.
ToldOfError(c) ==
    \E i \in 1..Len(wsOut'[c]) :
        wsOut'[c][i].by = "server" /\ wsOut'[c][i].data = TerminalError

\* C22: when the process channel of a live bridge reports an error or ends,
\* the bridge's transport is sent the terminal error message and is closed.
C22_ChannelFailureClosesTransport ==
    [][\A c \in 1..Len(conn) :
          Live(c) /\ (Reports(ExecOf(c), "error") \/ Reports(ExecOf(c), "end")) =>
              /\ ToldOfError(c)
              /\ conn'[c].pc = "closed"]_vars

\* The cleanupSession calls the step starts from a background timer.
TimerCalls ==
    {k \in (Len(reqs) + 1)..Len(reqs') : reqs'[k].origin \in {"reaper", "timeout"}}

\* C23: a background timer (the periodic sweep or the timeout armed at
\* creation) starts the termination of a session only when now - lastActivity
\* exceeds the 30-minute threshold at that moment.
C23_TimersTerminateOnlyTheIdle ==
    [][\A k \in TimerCalls : IdleTooLong(reqs'[k].id)]_vars

\* The writes made to the stream of connection c after its init commands.
LaterWrites(c) ==
    SubSeq(streamIn[c], Len(InitWrites(conn[c].dims)) + 1, Len(streamIn[c]))

\* C24: a resize request that was answered 200 for a session holding a
\* process channel has, besides its exec.resize call, written the stty line
\* for the requested dimensions to that channel.
C24_ResizeWritesStty ==
    \A r \in 1..Len(rz) :
        rz[r].pc = "done" /\ rz[r].status = 200 /\ rz[r].exec # NoExec =>
            /\ CallsFor(resizeLog, r) # {}
            /\ \E i \in 1..Len(LaterWrites(rz[r].exec[2])) :
                   LaterWrites(rz[r].exec[2])[i].data = SttyLine(rz[r].dims)
\* The writes made through connection c before the first one that carries
\* client input.
BeforeInput(c) ==
    LET w == streamIn[c]
        firsts == {i \in 1..Len(w) : w[i].by = "client"}
    IN  IF firsts = {} THEN w
        ELSE SubSeq(w, 1, (CHOOSE i \in firsts : \A j \in firsts : i <= j) - 1)

\* The setup lines: terminal type, the two size variables for dimensions d,
\* a prompt format, clear.
TermLine == <<"export TERM=xterm-256color\n">>
ColumnsLine(d) == <<"export COLUMNS=">> \o Digits(d.cols) \o <<"\n">>
LinesLine(d) == <<"export LINES=">> \o Digits(d.rows) \o <<"\n">>
PromptLines ==
    {<<"export PS1=\"[\\u@\\h \\W]\\$ \"\n">>, <<"export PS1=\"\\u@\\h:\\w\\$ \"\n">>}
ClearLine == <<"clear\n">>

\* w holds the setup lines for dimensions d, in that order.
SetupComplete(w, d) ==
    \E t, x, y, p, z \in 1..Len(w) :
        /\ t < x /\ x < y /\ y < p /\ p < z
        /\ w[t].data = TermLine
        /\ w[x].data = ColumnsLine(d)
        /\ w[y].data = LinesLine(d)
        /\ w[p].data \in PromptLines
        /\ w[z].data = ClearLine

\* C25: for every bridged connection, first or later, the writes made to the
\* process channel before any client input of that connection hold the whole
\* setup sequence: terminal type, size variables, prompt, clear.
C25_SetupBeforeInput ==
    \A c \in 1..Len(conn) :
        Bridged(c) => SetupComplete(BeforeInput(c), conn[c].dims)

\* The frames that end a line.
Terminators == {<<"\r">>, <<"\n">>}

\* What was written to the stream of connection c on the client's behalf.
ClientWrites(c) ==
    LET w == SelectSeq(streamIn[c], LAMBDA e : e.by = "client")
    IN  [i \in 1..Len(w) |-> w[i].data]

\* w is f, in order, with none but terminator frames left out.
RECURSIVE InOrder(_, _)
InOrder(w, f) ==
    IF f = <<>> THEN w = <<>>
    ELSE \/ w # <<>> /\ Head(w) = Head(f) /\ InOrder(Tail(w), Tail(f))
         \/ Head(f) \in Terminators /\ InOrder(w, Tail(f))

\* The step receives a frame on connection c; the frame.
Receives(c) == Len(wsIn'[c]) = Len(wsIn[c]) + 1
Received(c) == wsIn'[c][Len(wsIn'[c])]

\* The step writes the received frame, as it is, to the stream of c.
ForwardedNow(c) ==
    streamIn'[c] = Append(streamIn[c], [by |-> "client", data |-> Received(c)])

\* The line held for connection c is one the handler does not pass on:
\* deny-listed, or the q that leaves the viewer.
Suppressed(c) ==
    LET buf == Trim(commandBuffer[c])
    IN  \/ buf # <<>> /\ isCommandBlocked(buf)
        \/ buf = <<"q">> /\ lastCommand[conn[c].id] = <<"t", "o", "p">>

\* C26: every frame that is not a line terminator is written unchanged to the
\* stream and appended to commandBuffer, whatever the filter says of the text;
\* a terminator is written unless its line is suppressed; and the client's
\* writes are the received frames in order, only terminators left out.
C26_FramesForwardedInOrder ==
    /\ [](\A c \in 1..Len(conn) : InOrder(ClientWrites(c), wsIn[c]))
    /\ [][\A c \in 1..Len(conn) :
             Receives(c) =>
                 IF Received(c) \notin Terminators
                 THEN /\ ForwardedNow(c)
                      /\ commandBuffer'[c] = commandBuffer[c] \o Received(c)
                 ELSE ForwardedNow(c) \/ Suppressed(c)]_vars

\* A blocked line's terminator was left out and a later keystroke forwarded.
C26_Witness ==
    \E c \in 1..Len(conn) :
        /\ Len(wsIn[c]) >= 3
        /\ wsIn[c][1] = <<"d", "d">> /\ wsIn[c][2] = <<"\r">> /\ wsIn[c][3] = <<"d">>
        /\ ClientWrites(c) = <<<<"d", "d">>, <<"d">>>>
\* The text of the frames of f that follow its last terminator frame.
RECURSIVE SinceTerminator(_)
SinceTerminator(f) ==
    IF f = <<>> THEN <<>>
    ELSE LET last == f[Len(f)]
         IN  IF last \in Terminators THEN <<>>
             ELSE SinceTerminator(SubSeq(f, 1, Len(f) - 1)) \o last

\* C27: when the handler has processed a line terminator frame (blocked
\* line, the q that leaves the viewer, or a line passed on), commandBuffer is
\* empty; so at every moment commandBuffer is the text received since the last
\* terminator frame and nothing of an earlier line.
C27_BufferResetsAtTerminator ==
    /\ [](\A c \in 1..Len(conn) : commandBuffer[c] = SinceTerminator(wsIn[c]))
    /\ [][\A c \in 1..Len(conn) :
             Receives(c) /\ Received(c) \in Terminators => commandBuffer'[c] = <<>>]_vars

\* A line was passed on, then the q that leaves the viewer was handled, and
\* the buffer is empty.
C27_Witness ==
    \E c \in 1..Len(conn) :
        /\ wsIn[c] = <<<<"t", "o", "p">>, <<"\r">>, <<"q">>, <<"\r">>>>
        /\ commandBuffer[c] = <<>>
        /\ lastCommand[conn[c].id] = <<>>


\* Frame data ends a line: its last character is a carriage return or a
\* newline.
EndsLine(data) == data # <<>> /\ data[Len(data)] \in {"\r", "\n"}

\* C28: however the client's bytes are split into frames, a frame whose last
\* byte is a line terminator ends the line: commandBuffer is empty afterwards,
\* and if the line it completes is deny-listed the frame is not passed on to
\* the stream.
C28_VerdictIgnoresFraming ==
    [][\A c \in 1..Len(conn) :
          Receives(c) /\ EndsLine(Received(c)) =>
              /\ commandBuffer'[c] = <<>>
              /\ isCommandBlocked(Trim(commandBuffer[c] \o Received(c)))
                     => ~ForwardedNow(c)]_vars

====
